---- MODULE Spec2Model ----
(***************************************************************************)
(* Response-time analysis for EDF (Guan & Yi, DATE 2014) as implemented in *)
(* schedcat/sched/edf/gy_rta.py: the bound functions, the horizon scan of  *)
(* find_L_prime, the generator delta_values, and the two solvers           *)
(* approx_wcrt and exact_wcrt, run by a client on a task set it has built. *)
(* Indices i and the slack array s are 0-based as in the source; a task    *)
(* set is a sequence, so tskset[k] of the source is tskset[k + 1] here.    *)
(***************************************************************************)
EXTENDS Integers, Sequences, FiniteSets, TLC

VARIABLES
    tskset,     \* the caller's task set: a sequence of task records
    given,      \* history: the task set as the client built it
    prev,       \* history: algorithm and task set of the previous completed run
    pc,         \* "build", "scan", "loop", "fix", "final", "returned"
    alg,        \* the entry point running: "approx", "exact" ("-" before a call)
    ret,        \* the value the last call returned: "None", "False" ("-": none yet)
    l,          \* find_L_prime's scan counter
    L,          \* delta_values' horizon
    delta,      \* delta_values' counter, handed to the solver's loop
    i,          \* the solver's task index
    s,          \* the solver's slack array, a function on 0 .. n-1
    gamma_old,  \* exact_wcrt's inner iteration
    gamma_new,
    charged,    \* history: index and test point of the last slack update
    hits        \* history: number of slack updates applied to s[n-1] in this run

vars == <<tskset, given, prev, pc, alg, ret, l, L, delta, i, s,
          gamma_old, gamma_new, charged, hits>>

\* Bounds of the model.
MaxN == 3
MaxC == 2
MaxT == 4
MaxD == 4
MaxScan == 16

\* float("inf"): larger than every finite slack the bounds allow.
Inf == 1000000

\* A task's response_time before any analysis has written it.
Unset == 2000000

Max(a, b) == IF a >= b THEN a ELSE b

\* Python's min on numbers, +inf being the largest.
Min(a, b) == IF a <= b THEN a ELSE b

\* deadline - s[i] in floating point: deadline - inf = -inf.
Minus(d, x) == IF x = Inf THEN -Inf ELSE d - x

\* int(floor(a / b)) for b > 0 under true division.
Floor(a, b) == IF a >= 0 THEN a \div b ELSE -(((-a) + b - 1) \div b)

Task(c, t, d) == [cost |-> c, period |-> t, deadline |-> d, response_time |-> Unset]

----------------------------------------------------------------------------
\* The task-set container's operations (not part of gy_rta.py).

RECURSIVE PeriodProduct(_)
PeriodProduct(ts) ==
    IF ts = << >> THEN 1 ELSE Head(ts).period * PeriodProduct(Tail(ts))

RECURSIVE ScaledCost(_, _)
ScaledCost(ts, p) ==
    IF ts = << >> THEN 0
    ELSE Head(ts).cost * (p \div Head(ts).period) + ScaledCost(Tail(ts), p)

\* utilization() compared with 1: sum of cost/period, as a ratio of integers.
utilization_num(ts) == ScaledCost(ts, PeriodProduct(ts))
utilization_den(ts) == PeriodProduct(ts)

RECURSIVE InsertByDeadline(_, _)
InsertByDeadline(t, sorted) ==
    IF sorted = << >> THEN <<t>>
    ELSE IF t.deadline < Head(sorted).deadline THEN <<t>> \o sorted
    ELSE <<Head(sorted)>> \o InsertByDeadline(t, Tail(sorted))

\* sort_by_deadline(): a stable sort, ascending by deadline.
RECURSIVE sort_by_deadline(_)
sort_by_deadline(ts) ==
    IF ts = << >> THEN << >>
    ELSE InsertByDeadline(ts[Len(ts)], sort_by_deadline(SubSeq(ts, 1, Len(ts) - 1)))

----------------------------------------------------------------------------
\* Bound functions.

dbf_i(tsk, t) ==
    IF t <= 0 THEN 0
    ELSE Max(0, (Floor(t - tsk.deadline, tsk.period) + 1) * tsk.cost)

rbf_i(tsk, t) == IF t < 0 THEN 0 ELSE dbf_i(tsk, t + tsk.deadline)

RECURSIVE SumDbf(_, _)
SumDbf(ts, t) == IF ts = << >> THEN 0 ELSE dbf_i(Head(ts), t) + SumDbf(Tail(ts), t)

dbf(ts, t) == IF t <= 0 THEN 0 ELSE SumDbf(ts, t)

RECURSIVE SumRbf(_, _)
SumRbf(ts, t) == IF ts = << >> THEN 0 ELSE rbf_i(Head(ts), t) + SumRbf(Tail(ts), t)

rbf(ts, t) == IF t < 0 THEN 0 ELSE SumRbf(ts, t)

sbf_uniprocessor(t) == t

sbf_inverse_uniprocessor(x) == x

mbf_i_max(tsk, d, g) == Max(dbf_i(tsk, d), rbf_i(tsk, g))

mbf_i(tsk, d, g) == Min(dbf_i(tsk, d), rbf_i(tsk, g))

RECURSIVE mbf(_, _, _)
mbf(ts, d, g) == IF ts = << >> THEN 0 ELSE mbf_i(Head(ts), d, g) + mbf(Tail(ts), d, g)

RECURSIVE MaxDeadline(_)
MaxDeadline(ts) ==
    IF Len(ts) = 1 THEN ts[1].deadline
    ELSE Max(Head(ts).deadline, MaxDeadline(Tail(ts)))

RECURSIVE MinDeadline(_)
MinDeadline(ts) ==
    IF Len(ts) = 1 THEN ts[1].deadline
    ELSE Min(Head(ts).deadline, MinDeadline(Tail(ts)))

\* delta_values' test: some task's deadline divides delta.
IsTestPoint(ts, d) == \E k \in 1..Len(ts) : d % ts[k].deadline = 0

----------------------------------------------------------------------------
\* The solvers' shared pieces.

NoPrev == [alg |-> "-", tskset |-> << >>]

NoCharge == [i |-> -1, delta |-> 0]

n == Len(tskset)

Algorithms == {"approx", "exact"}

\* The sum of cost/period exceeds 1.
Overloaded(ts) == utilization_num(ts) > utilization_den(ts)

RejectsReversed(ts) == utilization_num(ts) < utilization_den(ts)

\* The guard of both entry points: utilization() > 1.
Rejects(ts) == utilization_num(ts) > utilization_den(ts)

\* tskset.sort_by_deadline() as the entry points call it.
Sorted(ts) == sort_by_deadline(ts)

SlackInitZero(len) == [k \in 0..(len - 1) |-> 0]

SlackInitStale(len) ==
    [k \in 0..(len - 1) |->
        IF tskset[k + 1].response_time = Unset THEN Inf
        ELSE tskset[k + 1].response_time]

\* s = [float("inf")] * len(tskset)
SlackInit(len) == [k \in 0..(len - 1) |-> Inf]

\* if delta >= tskset[i+1].deadline: i += 1
Advance(ts, idx, d) == IF d >= ts[idx + 2].deadline THEN idx + 1 ELSE idx

\* delta - sbf_pseudo_inverse(dbf(tskset, delta))
Candidate(ts, d) == d - sbf_inverse_uniprocessor(dbf(ts, d))

ConvergedAlways(go, gn) == TRUE

\* The inner loop's exit test: not (gamma_new != gamma_old).
Converged(go, gn) == gn = go

\* The finalization loop, from index k down to 0.
RECURSIVE Finalize(_, _, _)
Finalize(ts, sl, k) ==
    LET written == [ts EXCEPT ![k + 1].response_time = Minus(ts[k + 1].deadline, sl[k])]
    IN  IF k = 0 THEN written
        ELSE Finalize(written, [sl EXCEPT ![k - 1] = Min(sl[k], sl[k - 1])], k - 1)

----------------------------------------------------------------------------
Init ==
    /\ tskset = << >>
    /\ given = << >>
    /\ prev = NoPrev
    /\ pc = "build"
    /\ alg = "-"
    /\ ret = "-"
    /\ l = 0
    /\ L = 0
    /\ delta = 0
    /\ i = 0
    /\ s = << >>
    /\ gamma_old = 0
    /\ gamma_new = 0
    /\ charged = NoCharge
    /\ hits = 0

\* The client appends a task. A set that is already overloaded is rejected
\* whatever is appended to it, so the client stops extending it.
AddTask ==
    /\ pc = "build"
    /\ Len(tskset) < MaxN
    /\ ~Overloaded(tskset)
    /\ \E c \in 1..MaxC, t \in 1..MaxT, d \in 1..MaxD :
          tskset' = Append(tskset, Task(c, t, d))
    /\ given' = tskset'
    /\ UNCHANGED <<prev, pc, alg, ret, l, L, delta, i, s, gamma_old, gamma_new,
                   charged, hits>>

\* approx_wcrt / exact_wcrt on an overloaded set: return False.
Reject ==
    /\ pc \in {"build", "returned"}
    /\ Len(tskset) >= 1
    /\ Rejects(tskset)
    /\ \E a \in Algorithms : alg' = a
    /\ ret' = "False"
    /\ pc' = "returned"
    /\ UNCHANGED <<tskset, given, prev, l, L, delta, i, s, gamma_old, gamma_new,
                   charged, hits>>

\* approx_wcrt / exact_wcrt up to the first request to delta_values, which
\* starts find_L_prime's scan.
Start ==
    /\ pc \in {"build", "returned"}
    /\ Len(tskset) >= 1
    /\ ~Rejects(tskset)
    /\ \E a \in Algorithms : alg' = a
    /\ prev' = IF pc = "returned" THEN [alg |-> alg, tskset |-> tskset] ELSE prev
    /\ tskset' = Sorted(tskset)
    /\ s' = SlackInit(Len(tskset))
    /\ i' = 0
    /\ delta' = tskset'[1].deadline
    /\ l' = 0
    /\ L' = 0
    /\ gamma_old' = 0
    /\ gamma_new' = 0
    /\ charged' = NoCharge
    /\ hits' = 0
    /\ ret' = "-"
    /\ pc' = "scan"
    /\ UNCHANGED given

\* find_L_prime: the test fails, l += 1.
ScanNext ==
    /\ pc = "scan"
    /\ ~(rbf(tskset, l) <= sbf_uniprocessor(l))
    /\ l < MaxScan
    /\ l' = l + 1
    /\ UNCHANGED <<tskset, given, prev, pc, alg, ret, L, delta, i, s, gamma_old,
                   gamma_new, charged, hits>>

\* find_L_prime returns l; find_L adds the largest deadline; delta_values
\* starts at the smallest deadline.
ScanReturn ==
    /\ pc = "scan"
    /\ rbf(tskset, l) <= sbf_uniprocessor(l)
    /\ L' = l + MaxDeadline(tskset)
    /\ delta' = MinDeadline(tskset)
    /\ l' = 0
    /\ pc' = "loop"
    /\ UNCHANGED <<tskset, given, prev, alg, ret, i, s, gamma_old, gamma_new,
                   charged, hits>>

\* delta_values: no deadline divides delta, delta += 1.
GenSkip ==
    /\ pc = "loop"
    /\ delta <= L
    /\ ~IsTestPoint(tskset, delta)
    /\ delta' = delta + 1
    /\ UNCHANGED <<tskset, given, prev, pc, alg, ret, l, L, i, s, gamma_old,
                   gamma_new, charged, hits>>

\* delta_values is exhausted: the for loop ends.
GenEnd ==
    /\ pc = "loop"
    /\ delta > L
    /\ pc' = "final"
    /\ UNCHANGED <<tskset, given, prev, alg, ret, l, L, delta, i, s, gamma_old,
                   gamma_new, charged, hits>>

\* A test point is produced and i >= len(tskset) - 1: break.
Break ==
    /\ pc = "loop"
    /\ delta <= L
    /\ IsTestPoint(tskset, delta)
    /\ i >= n - 1
    /\ pc' = "final"
    /\ UNCHANGED <<tskset, given, prev, alg, ret, l, L, delta, i, s, gamma_old,
                   gamma_new, charged, hits>>

\* approx_wcrt's loop body at test point delta.
ApproxBody ==
    /\ pc = "loop"
    /\ alg = "approx"
    /\ delta <= L
    /\ IsTestPoint(tskset, delta)
    /\ i < n - 1
    /\ i' = Advance(tskset, i, delta)
    /\ s' = [s EXCEPT ![i'] = Min(s[i'], Candidate(tskset, delta))]
    /\ charged' = [i |-> i', delta |-> delta]
    /\ hits' = IF i' = n - 1 THEN hits + 1 ELSE hits
    /\ delta' = delta + 1
    /\ UNCHANGED <<tskset, given, prev, pc, alg, ret, l, L, gamma_old, gamma_new>>

\* exact_wcrt's loop body at a test point whose candidate does not improve s[i].
ExactPass ==
    /\ pc = "loop"
    /\ alg = "exact"
    /\ delta <= L
    /\ IsTestPoint(tskset, delta)
    /\ i < n - 1
    /\ i' = Advance(tskset, i, delta)
    /\ ~(Candidate(tskset, delta) < s[i'])
    /\ delta' = delta + 1
    /\ UNCHANGED <<tskset, given, prev, pc, alg, ret, l, L, s, gamma_old, gamma_new,
                   charged, hits>>

\* exact_wcrt's loop body at a test point whose candidate improves s[i]: the
\* refinement is entered.
ExactEnter ==
    /\ pc = "loop"
    /\ alg = "exact"
    /\ delta <= L
    /\ IsTestPoint(tskset, delta)
    /\ i < n - 1
    /\ i' = Advance(tskset, i, delta)
    /\ Candidate(tskset, delta) < s[i']
    /\ gamma_old' = 0
    /\ gamma_new' = sbf_inverse_uniprocessor(mbf(tskset, delta, 0))
    /\ pc' = "fix"
    /\ UNCHANGED <<tskset, given, prev, alg, ret, l, L, delta, s, charged, hits>>

\* One round of while gamma_new != gamma_old.
FixStep ==
    /\ pc = "fix"
    /\ ~Converged(gamma_old, gamma_new)
    /\ gamma_old' = gamma_new
    /\ gamma_new' = sbf_inverse_uniprocessor(mbf(tskset, delta, gamma_new))
    /\ UNCHANGED <<tskset, given, prev, pc, alg, ret, l, L, delta, i, s, charged, hits>>

\* The inner loop ends: s[i] = min(s[i], delta - gamma_new).
FixExit ==
    /\ pc = "fix"
    /\ Converged(gamma_old, gamma_new)
    /\ s' = [s EXCEPT ![i] = Min(s[i], delta - gamma_new)]
    /\ charged' = [i |-> i, delta |-> delta]
    /\ hits' = IF i = n - 1 THEN hits + 1 ELSE hits
    /\ delta' = delta + 1
    /\ pc' = "loop"
    /\ UNCHANGED <<tskset, given, prev, alg, ret, l, L, i, gamma_old, gamma_new>>

\* The finalization loop; the call returns None.
Final ==
    /\ pc = "final"
    /\ tskset' = Finalize(tskset, s, n - 1)
    /\ ret' = "None"
    /\ pc' = "returned"
    /\ s' = << >>
    /\ i' = 0
    /\ delta' = 0
    /\ L' = 0
    /\ gamma_old' = 0
    /\ gamma_new' = 0
    /\ UNCHANGED <<given, prev, alg, l, charged, hits>>

\* The steps of a running call.
Run ==
    \/ ScanNext
    \/ ScanReturn
    \/ GenSkip
    \/ GenEnd
    \/ Break
    \/ ApproxBody
    \/ ExactPass
    \/ ExactEnter
    \/ FixStep
    \/ FixExit
    \/ Final

Next == AddTask \/ Reject \/ Start \/ Run

Spec == Init /\ [][Next]_vars

\* One call on a freshly built task set the guard accepts; a call that has
\* started keeps executing.
FeasibleAdd == AddTask /\ ~Overloaded(tskset')

FirstStart == pc = "build" /\ Start

NextFeasible == FeasibleAdd \/ FirstStart \/ Run

FairSpec == Init /\ [][NextFeasible]_vars /\ WF_vars(Run)

\* At utilization exactly 1 the test of find_L_prime fails at the scan's
\* current position, whatever that position is.
FullUtilizationNeverCrosses ==
    (pc = "scan" /\ utilization_num(tskset) = utilization_den(tskset)) =>
        rbf(tskset, l) > sbf_uniprocessor(l)

----------------------------------------------------------------------------
\* Properties.

\* A call has run to completion.
Done == pc = "returned" /\ ret = "None"

Finite(x) == x # Inf /\ x # -Inf /\ x # Unset

\* The results of the two algorithms when the last two completed runs differ.
ExactRun == IF alg = "exact" THEN tskset ELSE prev.tskset
ApproxRun == IF alg = "approx" THEN tskset ELSE prev.tskset

\* C1: after a completed run on a set with utilization <= 1 every task's
\* response_time is finite and at least the task's cost.
C1_ResponseTimeFiniteAtLeastCost ==
    Done => \A k \in 1..n :
                /\ Finite(tskset[k].response_time)
                /\ tskset[k].response_time >= tskset[k].cost

\* C2: when exact_wcrt and approx_wcrt have both completed on the same task
\* set in the same order, every task's exact response time is at most its
\* approximate one.
C2_ExactNotAboveApprox ==
    (Done /\ prev.alg # "-" /\ prev.alg # alg) =>
        /\ Len(ExactRun) = Len(ApproxRun)
        /\ \A k \in 1..n :
              /\ ExactRun[k].cost = ApproxRun[k].cost
              /\ ExactRun[k].period = ApproxRun[k].period
              /\ ExactRun[k].deadline = ApproxRun[k].deadline
              /\ ExactRun[k].response_time <= ApproxRun[k].response_time

\* C2 witness: both algorithms have completed and the exact bound of some
\* task is strictly below its approximate bound.
C2_Witness ==
    /\ Done
    /\ prev.alg = "approx"
    /\ alg = "exact"
    /\ \E k \in 1..n :
          /\ Finite(tskset[k].response_time)
          /\ tskset[k].response_time < prev.tskset[k].response_time

\* C3: on a task set with utilization > 1 a call never gets past the guard:
\* it returns False, no successful outcome is ever reported, and the task set
\* (order and response_time fields) stays as the client built it.
C3_OverloadRejectedUnchanged ==
    Overloaded(given) =>
        /\ tskset = given
        /\ pc \in {"build", "returned"}
        /\ (pc = "returned" => ret = "False" /\ ret # "None")

\* C3 witness: a call on an overloaded set that is not in deadline order has
\* returned False.
C3_Witness ==
    /\ pc = "returned"
    /\ ret = "False"
    /\ Overloaded(given)
    /\ \E k \in 1..(n - 1) : tskset[k].deadline > tskset[k + 1].deadline

\* A single task with cost = period = deadline.
SingleFullTask ==
    /\ n = 1
    /\ tskset[1].cost = tskset[1].period
    /\ tskset[1].cost = tskset[1].deadline

\* C4: a call on a single task with cost = period = deadline = C completes
\* with response_time = C.
C4_SingleTaskResponseIsCost ==
    (pc = "scan" /\ SingleFullTask)
        ~> (Done /\ SingleFullTask /\ tskset[1].response_time = tskset[1].cost)

\* The least l >= 0 with rbf(tskset, l) <= sbf(l) is x.
IsLeastCrossing(x) ==
    /\ x >= 0
    /\ rbf(tskset, x) <= sbf_uniprocessor(x)
    /\ \A y \in 0..(x - 1) : ~(rbf(tskset, y) <= sbf_uniprocessor(y))

\* C5: on every non-empty set with utilization <= 1 the scan of find_L_prime
\* ends, and it returns the least l with rbf(tskset, l) <= sbf(l).
C5_ScanTerminatesAtLeast ==
    (pc = "scan") ~> (pc = "loop" /\ IsLeastCrossing(L - MaxDeadline(tskset)))

\* C6: a second completed run of the same algorithm leaves the task order and
\* every response_time as the first run left them.
C6_RerunIdentical ==
    (Done /\ prev.alg = alg) => tskset = prev.tskset

\* C6 witness: the same algorithm has completed twice on a set the first run
\* had to reorder, with a finite response time written.
C6_Witness ==
    /\ Done
    /\ prev.alg = alg
    /\ tskset # given
    /\ \E k \in 1..n : given[k].deadline # tskset[k].deadline
    /\ \E k \in 1..n : Finite(tskset[k].response_time)

\* C7: whenever a slack update is applied at test point delta to an index i
\* that is not the last one, delta is below the deadline of task i+1.
C7_ChargedBeforeNextDeadline ==
    (pc \in {"loop", "fix", "final"} /\ charged.i >= 0 /\ charged.i < n - 1) =>
        charged.delta < tskset[charged.i + 2].deadline

\* C8 as stated: the slack update is never applied to the last task, whose
\* slack still holds its initial value when finalization starts.
C8_LastSlackNeverAssigned ==
    pc = "final" => hits = 0 /\ s[n - 1] = Inf

\* C8 amended: the last task's slack is assigned from at most one test point,
\* the one at which i advances to the last index, after which no further test
\* point is charged; it holds its initial +inf at finalization exactly when no
\* test point advanced i to the last index, as for a set of one task.
C8_LastSlackAssignedAtMostOnce ==
    /\ hits <= 1
    /\ (n = 1 => hits = 0)
    /\ pc \in {"loop", "fix", "final"} =>
          /\ (hits = 0 => s[n - 1] = Inf)
          /\ (hits = 1 => i = n - 1 /\ charged.i = n - 1 /\ s[n - 1] # Inf)

\* C8 witness: finalization starts after the last task's slack has been
\* assigned from a test point.
C8_Witness ==
    /\ pc = "final"
    /\ hits = 1
    /\ n >= 2
    /\ s[n - 1] # Inf

\* C9: every integer t in [min D_i, L] at which some task's dbf_i steps is a
\* test point delta_values produces.
C9_StepsAreTestPoints ==
    pc = "loop" =>
        \A t \in MinDeadline(tskset)..L :
            (\E k \in 1..n : dbf_i(tskset[k], t) # dbf_i(tskset[k], t - 1))
                => IsTestPoint(tskset, t)

\* C10: once exact_wcrt enters the refinement at a test point, the inner
\* iteration ends, it ends at a gamma with gamma = sbf_inverse(mbf(tskset,
\* delta, gamma)), and s[i] changes only then, to min(s[i], delta - gamma).
C10_RefinementReachesFixedPoint ==
    /\ (pc = "fix") ~> (pc = "loop")
    /\ [][(pc = "fix" /\ pc' = "loop") =>
             /\ gamma_new = sbf_inverse_uniprocessor(mbf(tskset, delta, gamma_new))
             /\ s' = [s EXCEPT ![i] = Min(s[i], delta - gamma_new)]]_vars
    /\ [][(alg = "exact" /\ pc \in {"loop", "fix"} /\ s' # s) =>
             (pc = "fix" /\ pc' = "loop")]_vars

\* C10 witness: the inner iteration has converged after more than one round.
C10_Witness ==
    /\ pc = "fix"
    /\ gamma_old > 0
    /\ gamma_new = gamma_old
    /\ gamma_new > mbf(tskset, delta, 0)

====
